---- MODULE Spec2Model ----
(***************************************************************************)
(* A model of the nprnews pipeline: the label protection and the provider  *)
(* fallback of news_translator.py, the cleaning passes of data_clean.py    *)
(* and the page update of wordpress_utils.py and wordpress_updater.py.     *)
(* Texts are sequences of one-character strings.                           *)
(***************************************************************************)
EXTENDS Integers, Sequences, FiniteSets, TLC

(***************************************************************************)
(* Bounds of the model.                                                    *)
(***************************************************************************)
\* longest input text of the label round trip
MaxTextLen == 4

(***************************************************************************)
(* Characters and Python string primitives.                                *)
(***************************************************************************)
NL == "\n"

\* [A-Z] of the label pattern
UpperChars ==
    {"A", "B", "C", "D", "E", "F", "G", "H", "I", "J", "K", "L", "M",
     "N", "O", "P", "Q", "R", "S", "T", "U", "V", "W", "X", "Y", "Z"}

\* \s of the label pattern, as far as the modelled texts hold whitespace
SpaceChars == {" ", NL}

\* the character class [A-Z\s]
IsLabelChar(c) == c \in UpperChars \cup SpaceChars

\* s[i..] starts with p
StartsWith(s, p) == Len(p) <= Len(s) /\ SubSeq(s, 1, Len(p)) = p

\* the least element of a non-empty set of numbers
Min(S) == CHOOSE x \in S : \A y \in S : x <= y

\* str.find(p), 1-based: where p first occurs in s, 0 when it does not
FirstOcc(s, p) ==
    IF \E i \in 1..(Len(s) - Len(p) + 1) : SubSeq(s, i, i + Len(p) - 1) = p
    THEN Min({i \in 1..(Len(s) - Len(p) + 1) : SubSeq(s, i, i + Len(p) - 1) = p})
    ELSE 0

RECURSIVE Replace(_, _, _)
\* s with the occurrence of old at i, and every later one, replaced by new
ReplaceAt(s, old, new, i) ==
    IF i = 0 THEN s
    ELSE SubSeq(s, 1, i - 1) \o new
         \o Replace(SubSeq(s, i + Len(old), Len(s)), old, new)

\* str.replace(old, new): every non-overlapping occurrence, left to right
Replace(s, old, new) == ReplaceAt(s, old, new, FirstOcc(s, old))

RECURSIVE CountOcc(_, _)
\* the occurrences of p in s, given that the first is at i
CountAt(s, p, i) ==
    IF i = 0 THEN 0 ELSE 1 + CountOcc(SubSeq(s, i + Len(p), Len(s)), p)

\* str.count(p): the non-overlapping occurrences of p in s
CountOcc(s, p) == CountAt(s, p, FirstOcc(s, p))

Digit(d) == <<"0", "1", "2", "3", "4", "5", "6", "7", "8", "9">>[d + 1]

RECURSIVE IntToStr(_)
\* the decimal text of a natural number, as an f-string renders it
IntToStr(n) ==
    IF n < 10 THEN <<Digit(n)>>
    ELSE IntToStr(n \div 10) \o <<Digit(n % 10)>>

(***************************************************************************)
(* NewsTranslator.protect_names and restore_names.                         *)
(***************************************************************************)
\* f"NAMEPLACEHOLDER_{i}_END"
PlaceholderHead ==
    <<"N", "A", "M", "E", "P", "L", "A", "C", "E", "H", "O", "L", "D", "E", "R", "_">>
PlaceholderTail == <<"_", "E", "N", "D">>
Placeholder(i) == PlaceholderHead \o IntToStr(i) \o PlaceholderTail

\* the length of the longest prefix of s made of [A-Z\s] characters
RunLen(s) ==
    CHOOSE k \in 0..Len(s) :
        /\ \A j \in 1..k : IsLabelChar(s[j])
        /\ k = Len(s) \/ ~IsLabelChar(s[k + 1])

\* the pattern (\n)?([A-Z\s]+): matched at the head of s: the two groups and
\* the length matched, or len 0 when it does not match there
MatchAt(s) ==
    LET viaNl == IF s # <<>> /\ Head(s) = NL THEN RunLen(Tail(s)) ELSE 0
        plain == RunLen(s)
    IN  IF viaNl > 0 /\ Len(s) >= viaNl + 2 /\ s[viaNl + 2] = ":"
        THEN [nl |-> <<NL>>, name |-> SubSeq(s, 2, viaNl + 1), len |-> viaNl + 2]
        ELSE IF plain > 0 /\ Len(s) >= plain + 1 /\ s[plain + 1] = ":"
             THEN [nl |-> <<>>, name |-> SubSeq(s, 1, plain), len |-> plain + 1]
             ELSE [nl |-> <<>>, name |-> <<>>, len |-> 0]

\* where the pattern first matches in s (1-based), 0 when it does not
FirstMatch(s) ==
    IF \E i \in 1..Len(s) : MatchAt(SubSeq(s, i, Len(s))).len > 0
    THEN Min({i \in 1..Len(s) : MatchAt(SubSeq(s, i, Len(s))).len > 0})
    ELSE 0

RECURSIVE FindAll(_)
\* the groups of the match m and of the matches after it
FindOn(s, m) ==
    <<[nl |-> m.nl, name |-> m.name]>> \o FindAll(SubSeq(s, m.len + 1, Len(s)))

\* the groups of the matches of s, given that the first is at i
FindFrom(s, i) ==
    IF i = 0 THEN <<>>
    ELSE FindOn(SubSeq(s, i, Len(s)), MatchAt(SubSeq(s, i, Len(s))))

\* name_pattern.findall(text): the groups of the non-overlapping matches
FindAll(s) == FindFrom(s, FirstMatch(s))

RECURSIVE ProtectLoop(_, _, _)
\* the loop of protect_names from match i (0-based) on
ProtectLoop(text, matches, i) ==
    IF i >= Len(matches) THEN text
    ELSE LET m == matches[i + 1]
         IN  ProtectLoop(Replace(text, m.nl \o m.name \o <<":">>,
                                 m.nl \o Placeholder(i) \o <<":">>),
                         matches, i + 1)

\* protect_names(text): the protected text and the recorded labels
protect_names(text) ==
    LET matches == FindAll(text)
    IN  [text |-> ProtectLoop(text, matches, 0),
         names |-> [k \in 1..Len(matches) |-> matches[k].name]]

RECURSIVE RestoreLoop(_, _, _)
\* the loop of restore_names from name i (0-based) on
RestoreLoop(text, names, i) ==
    IF i >= Len(names) THEN text
    ELSE RestoreLoop(Replace(text, Placeholder(i), names[i + 1]), names, i + 1)

\* restore_names(translated_text, names)
restore_names(translated_text, names) == RestoreLoop(translated_text, names, 0)

(***************************************************************************)
(* The translation providers.  A provider is an external service: what it  *)
(* answers is an input of the model, drawn per call.                       *)
(***************************************************************************)
\* Python's None, and a str value
NoneVal == [some |-> FALSE, val |-> <<>>]
Str(s) == [some |-> TRUE, val |-> s]

\* Python truthiness of an optional str
Truthy(v) == v.some /\ v.val # <<>>

UpperSeq ==
    <<"A", "B", "C", "D", "E", "F", "G", "H", "I", "J", "K", "L", "M",
      "N", "O", "P", "Q", "R", "S", "T", "U", "V", "W", "X", "Y", "Z">>
LowerSeq ==
    <<"a", "b", "c", "d", "e", "f", "g", "h", "i", "j", "k", "l", "m",
      "n", "o", "p", "q", "r", "s", "t", "u", "v", "w", "x", "y", "z">>
LowerOf(c) ==
    IF c \in UpperChars THEN LowerSeq[CHOOSE k \in 1..26 : UpperSeq[k] = c] ELSE c

DigitChars == {"0", "1", "2", "3", "4", "5", "6", "7", "8", "9"}

\* the length of the longest prefix of s made of digits
DigitRun(s) ==
    CHOOSE k \in 0..Len(s) :
        /\ \A j \in 1..k : s[j] \in DigitChars
        /\ k = Len(s) \/ s[k + 1] \notin DigitChars

\* the length of the placeholder token s starts with, 0 when it starts with none
TokenLen(s) ==
    IF ~StartsWith(s, PlaceholderHead) THEN 0
    ELSE LET rest == SubSeq(s, Len(PlaceholderHead) + 1, Len(s))
             d == DigitRun(rest)
         IN  IF d > 0 /\ StartsWith(SubSeq(rest, d + 1, Len(rest)), PlaceholderTail)
             THEN Len(PlaceholderHead) + d + Len(PlaceholderTail)
             ELSE 0

\* position i of s lies in a placeholder token
InToken(s, i) ==
    \E j \in 1..i : TokenLen(SubSeq(s, j, Len(s))) > i - j

\* what a translation engine does to a text: speaker labels come back changed
\* (here in lower case), placeholder tokens come back verbatim
Mangle(s) ==
    [i \in 1..Len(s) |-> IF InToken(s, i) THEN s[i] ELSE LowerOf(s[i])]

\* the translation a provider answers for the text it was given
ProviderText(api, given) ==
    <<IF api = "DEEPL" THEN "d" ELSE "m">> \o Mangle(given)

\* what a call of DeepL's API can do: answer a translation, answer an empty
\* one, fail on transport (RequestException), answer no JSON (ValueError), or
\* answer JSON without translations[0].text (KeyError, IndexError, TypeError)
DeepLOutcomes == {"text", "empty", "transport", "badjson", "badshape"}

\* what a call of Azure's API can do: answer a translation, answer an empty
\* one, answer an error document, or fail in any way that raises
AzureOutcomes == {"text", "empty", "error", "raise"}

\* DeepLTranslator.translate(text, target_language): raised, or the return value
DeepLTranslate(text, outcome) ==
    CASE outcome = "text" -> [raised |-> FALSE, ret |-> Str(ProviderText("DEEPL", text))]
      [] outcome = "empty" -> [raised |-> FALSE, ret |-> Str(<<>>)]
      [] outcome \in {"transport", "badjson"} -> [raised |-> FALSE, ret |-> NoneVal]
      [] OTHER -> [raised |-> TRUE, ret |-> NoneVal]

\* AzureTranslator.translate(text, target_language): raised, or the return value
AzureTranslate(text, outcome) ==
    CASE outcome = "text" -> [raised |-> FALSE, ret |-> Str(ProviderText("MICROSOFT", text))]
      [] outcome = "empty" -> [raised |-> FALSE, ret |-> Str(<<>>)]
      [] outcome = "error" -> [raised |-> FALSE, ret |-> NoneVal]
      [] OTHER -> [raised |-> TRUE, ret |-> NoneVal]

\* NewsTranslator.translate_with_azure(text)
AzureGuarded(r) ==
    IF r.raised \/ ~Truthy(r.ret) THEN [raised |-> FALSE, ret |-> NoneVal] ELSE r

translate_with_azure(text, outcome) == AzureGuarded(AzureTranslate(text, outcome))

(***************************************************************************)
(* NewsTranslator.translate_text.                                          *)
(***************************************************************************)
\* the keys of the translators dict, in insertion order
RegisteredApis == <<"MICROSOFT", "DEEPL">>

\* translators.get(api)(text)
CallProvider(api, given, dOut, aOut) ==
    IF api = "DEEPL" THEN DeepLTranslate(given, dOut)
    ELSE translate_with_azure(given, aOut)

\* the argument translate_text hands to a provider
TextForProvider(text, protected_text) == text

\* a variant of FirstApi: the first registered provider, whatever is preferred
FirstApi_Registered(preferred_api) == RegisteredApis[1]

\* the provider translate_text calls first
FirstApi(preferred_api) == preferred_api

\* the trace of calls with the call c of api appended
Called(acc, api, given, c) ==
    [raised |-> c.raised, ret |-> c.ret,
     calls |-> Append(acc.calls, [api |-> api, text |-> given, ret |-> c.ret,
                                  raised |-> c.raised])]

\* one call of a provider, appended to the trace of calls
CallInto(acc, api, given, dOut, aOut) ==
    Called(acc, api, given, CallProvider(api, given, dOut, aOut))

RECURSIVE FallbackLoop(_, _, _, _, _, _)
\* for api, translator_func in translators.items(): from the k-th key on
FallbackLoop(k, given, preferred_api, dOut, aOut, acc) ==
    IF k > Len(RegisteredApis) \/ acc.raised \/ Truthy(acc.ret) THEN acc
    ELSE FallbackLoop(k + 1, given, preferred_api, dOut, aOut,
                      IF RegisteredApis[k] = preferred_api THEN acc
                      ELSE CallInto(acc, RegisteredApis[k], given, dOut, aOut))

\* if not translated_text: the other providers, after the first call
AfterFirst(first, given, preferred_api, dOut, aOut) ==
    IF first.raised \/ Truthy(first.ret) THEN first
    ELSE FallbackLoop(1, given, preferred_api, dOut, aOut, first)

\* the calls translate_text makes of the providers for the text given them
ProviderCalls(given, preferred_api, dOut, aOut) ==
    AfterFirst(CallInto([raised |-> FALSE, ret |-> NoneVal, calls |-> <<>>],
                        FirstApi(preferred_api), given, dOut, aOut),
               given, preferred_api, dOut, aOut)

\* translated_text = translated_text or text, then restore_names
Finish(text, names, last) ==
    [raised |-> last.raised,
     result |-> IF last.raised THEN <<>>
                ELSE restore_names(IF Truthy(last.ret) THEN last.ret.val ELSE text,
                                   names),
     calls |-> last.calls]

\* translate_text once protect_names has returned p
TranslateProtected(text, p, preferred_api, dOut, aOut) ==
    Finish(text, p.names,
           ProviderCalls(TextForProvider(text, p.text), preferred_api, dOut, aOut))

\* translate_text(text): whether it raised, what it returned, and the calls it
\* made of the providers, in order
translate_text(text, preferred_api, dOut, aOut) ==
    TranslateProtected(text, protect_names(text), preferred_api, dOut, aOut)

(***************************************************************************)
(* Records and field values of data_clean.py.  A field of a record (a      *)
(* dict) is absent, None or a str.                                         *)
(***************************************************************************)
AbsentF == [k |-> "absent", v |-> <<>>]
NoneF == [k |-> "none", v |-> <<>>]
StrF(s) == [k |-> "str", v |-> s]
ListF(l) == [k |-> "list", v |-> l]

\* item.get(field), as a truth value
TruthyF(f) == f.k \in {"str", "list"} /\ f.v # <<>>

\* a variant of RequiredFields: the summary is not required
RequiredFields_NoSummary == <<"date", "formatted_date", "content", "audio_link">>

\* the fields check_completeness requires
RequiredFields == <<"date", "formatted_date", "summary", "content", "audio_link">>

\* the fields handle_missing_data looks at
MissingDataFields == <<"date", "summary", "content", "audio_link">>

\* all(item.get(field) for field in [...])
Complete(item) == \A n \in 1..Len(RequiredFields) : TruthyF(item[RequiredFields[n]])

(***************************************************************************)
(* clean_text: text.encode('latin1').decode('unicode_escape'), the         *)
(* original text when that raises, then replace('\\n', '\n').              *)
(***************************************************************************)
BS == "\\"

\* a character outside latin-1 (encode raises UnicodeEncodeError)
WideChar == "U+4E2D"

RECURSIVE DecodeFrom(_, _)
\* decode('unicode_escape') of the rest s, after acc: ok and the text, or not ok
\* (a backslash at the end of the string)
DecodeFrom(s, acc) ==
    IF s = <<>> THEN [ok |-> TRUE, val |-> acc]
    ELSE IF Head(s) # BS THEN DecodeFrom(Tail(s), Append(acc, Head(s)))
    ELSE IF Len(s) = 1 THEN [ok |-> FALSE, val |-> acc]
    ELSE DecodeFrom(SubSeq(s, 3, Len(s)),
                    CASE s[2] = "n" -> Append(acc, NL)
                      [] s[2] = BS -> Append(acc, BS)
                      [] s[2] = NL -> acc
                      [] OTHER -> acc \o <<BS, s[2]>>)

\* the text the try block of clean_text leaves in cleaned_text
Decoded(s, d) ==
    IF (\E i \in 1..Len(s) : s[i] = WideChar) \/ ~d.ok THEN s ELSE d.val

\* clean_text(text) of a str
clean_text(s) == Replace(Decoded(s, DecodeFrom(s, <<>>)), <<BS, "n">>, <<NL>>)

\* item[field] = clean_text(item[field]) raises: KeyError when the key is
\* absent, AttributeError (None has no replace) when the value is None
CleanRaises(item, field) == item[field].k # "str"

\* item['summary'] = clean_text(item['summary']), then the same for content,
\* as far as it gets
CleanItem(item) ==
    IF CleanRaises(item, "summary") THEN item
    ELSE IF CleanRaises(item, "content")
         THEN [item EXCEPT !.summary = StrF(clean_text(item.summary.v))]
         ELSE [item EXCEPT !.summary = StrF(clean_text(item.summary.v)),
                           !.content = StrF(clean_text(item.content.v))]

RECURSIVE CleanLoop(_, _, _)
\* for item in data_without_duplicates: from the k-th on; the dicts are
\* updated in place, up to the one that raises
CleanLoop(items, data, k) ==
    IF k > Len(data) THEN [raised |-> FALSE, items |-> items]
    ELSE IF CleanRaises(items[data[k]], "summary") \/ CleanRaises(items[data[k]], "content")
         THEN [raised |-> TRUE,
               items |-> [items EXCEPT ![data[k]] = CleanItem(items[data[k]])]]
         ELSE CleanLoop([items EXCEPT ![data[k]] = CleanItem(items[data[k]])], data, k + 1)

(***************************************************************************)
(* check_duplicates, check_completeness, validate_data,                    *)
(* handle_missing_data.  A list of records is a sequence of references     *)
(* into items, the dicts json.load created.                                *)
(***************************************************************************)
\* elif audio_link: after "if audio_link and audio_link in seen"
KeepsItem(link, seen) == TruthyF(link) /\ link.v \notin seen

\* a variant of IsDuplicate: no record is taken for a duplicate
IsDuplicate_Never(link, seen) == FALSE

\* if audio_link and audio_link in seen
IsDuplicate(link, seen) == TruthyF(link) /\ link.v \in seen

\* a variant of SeenAfter: the key of a kept record is not remembered
SeenAfter_Forget(seen, link) == seen

\* seen.add(audio_link)
SeenAfter(seen, link) == seen \cup {link.v}

RECURSIVE DedupLoop(_, _, _, _, _)
\* for item in data: from the k-th on, with the keys seen and the lists so far
DedupLoop(items, data, k, seen, acc) ==
    IF k > Len(data) THEN acc
    ELSE IF IsDuplicate(items[data[k]].audio_link, seen)
         THEN DedupLoop(items, data, k + 1, seen,
                        [acc EXCEPT !.duplicate = Append(@, data[k])])
         ELSE IF KeepsItem(items[data[k]].audio_link, seen)
              THEN DedupLoop(items, data, k + 1,
                             SeenAfter(seen, items[data[k]].audio_link),
                             [acc EXCEPT !.unique = Append(@, data[k])])
              ELSE DedupLoop(items, data, k + 1, seen,
                             [acc EXCEPT !.nokey = Append(@, data[k])])

\* the sequence s backwards
Reverse(s) == [k \in 1..Len(s) |-> s[Len(s) + 1 - k]]

\* a variant of check_duplicates: a kept record is put in front of
\* unique_data (insert(0, item)) instead of at its end
check_duplicates_Reversed(items, data) ==
    [unique |-> Reverse(DedupLoop(items, data, 1, {},
                    [unique |-> <<>>, duplicate |-> <<>>, nokey |-> <<>>]).unique),
     duplicate |-> DedupLoop(items, data, 1, {},
                    [unique |-> <<>>, duplicate |-> <<>>, nokey |-> <<>>]).duplicate,
     nokey |-> DedupLoop(items, data, 1, {},
                    [unique |-> <<>>, duplicate |-> <<>>, nokey |-> <<>>]).nokey]

\* check_duplicates(data): unique_data, what was appended to
\* self.duplicate_data, and the items warned about as having no audio_link
check_duplicates(items, data) ==
    DedupLoop(items, data, 1, {}, [unique |-> <<>>, duplicate |-> <<>>, nokey |-> <<>>])

\* a variant of check_completeness: incomplete records stay in complete_data
check_completeness_KeepAll(items, data) ==
    [complete |-> data,
     incomplete |-> SelectSeq(data, LAMBDA r : ~Complete(items[r]))]

\* check_completeness(data): complete_data and what was appended to
\* self.incomplete_data
check_completeness(items, data) ==
    [complete |-> SelectSeq(data, LAMBDA r : Complete(items[r])),
     incomplete |-> SelectSeq(data, LAMBDA r : ~Complete(items[r]))]

\* the number a run of digits stands for
RECURSIVE DigitsVal(_)
DigitsVal(s) ==
    IF s = <<>> THEN 0
    ELSE 10 * DigitsVal(SubSeq(s, 1, Len(s) - 1))
         + (CHOOSE d \in 0..9 : Digit(d) = s[Len(s)])

IsLeap(y) == (y % 4 = 0 /\ y % 100 # 0) \/ y % 400 = 0

DaysIn(y, m) ==
    IF m = 2 THEN (IF IsLeap(y) THEN 29 ELSE 28)
    ELSE IF m \in {4, 6, 9, 11} THEN 30 ELSE 31

AllDigits(s) == \A i \in 1..Len(s) : s[i] \in DigitChars

\* the directive %m or %d matches n characters of s from position i: two
\* digits in range, or one digit other than 0
FieldAt(s, i, n, max) ==
    /\ i + n - 1 <= Len(s)
    /\ AllDigits(SubSeq(s, i, i + n - 1))
    /\ DigitsVal(SubSeq(s, i, i + n - 1)) \in 1..max
    /\ n = 2 => DigitsVal(SubSeq(s, i, i + n - 1)) >= 10 \/ s[i] = "0"

\* the widths (month, day) the regular expression of %Y%m%d tries, in order
DateWidths == <<<<2, 2>>, <<2, 1>>, <<1, 2>>, <<1, 1>>>>

\* the widths of the first alternative that matches after the four-digit year
MatchedWidths(s) ==
    DateWidths[Min({n \in 1..Len(DateWidths) :
                        /\ FieldAt(s, 5, DateWidths[n][1], 12)
                        /\ FieldAt(s, 5 + DateWidths[n][1], DateWidths[n][2], 31)})]

\* the %Y%m%d pattern matches a prefix of s
DateMatches(s) ==
    /\ Len(s) >= 4
    /\ AllDigits(SubSeq(s, 1, 4))
    /\ \E n \in 1..Len(DateWidths) :
          /\ FieldAt(s, 5, DateWidths[n][1], 12)
          /\ FieldAt(s, 5 + DateWidths[n][1], DateWidths[n][2], 31)

\* the match w of s is the whole of s and names a day of the calendar
DateValid(s, w) ==
    /\ Len(s) = 4 + w[1] + w[2]
    /\ DigitsVal(SubSeq(s, 1, 4)) >= 1
    /\ DigitsVal(SubSeq(s, 5 + w[1], Len(s)))
          <= DaysIn(DigitsVal(SubSeq(s, 1, 4)), DigitsVal(SubSeq(s, 5, 4 + w[1])))

\* datetime.strptime(date, '%Y%m%d') does not raise ValueError
ParsesAsDate(s) == DateMatches(s) /\ DateValid(s, MatchedWidths(s))

\* validate_data(data)
validate_data(items, data) ==
    SelectSeq(data, LAMBDA r : ParsesAsDate(items[r].formatted_date.v))

\* missing_fields of handle_missing_data for one item; an MP3 file on disk
\* removes 'audio_file', a name that is never in the list
MissingFields(item, mp3_exists) ==
    SelectSeq(SelectSeq(MissingDataFields, LAMBDA f : ~TruthyF(item[f])),
              LAMBDA f : ~(mp3_exists /\ f = "audio_file"))

\* the item after handle_missing_data has looked at it
Annotated(item, missing) ==
    IF missing # <<>> THEN [item EXCEPT !.missing_fields = ListF(missing)] ELSE item

RECURSIVE HandleLoop(_, _, _, _)
\* for idx, item in enumerate(self.cleaned_data): from the k-th on
HandleLoop(items, data, k, mp3_exists) ==
    IF k > Len(data) THEN items
    ELSE HandleLoop([items EXCEPT ![data[k]] =
                        Annotated(items[data[k]], MissingFields(items[data[k]], mp3_exists))],
                    data, k + 1, mp3_exists)

\* the records a list of references stands for, as json.dump writes them
Deref(items, data) == [k \in 1..Len(data) |-> items[data[k]]]

(***************************************************************************)
(* State.                                                                  *)
(***************************************************************************)
VARIABLES
    nm_pc,          \* label round trip: "input", "protected" or "restored"
    nm_text,        \* the text given to protect_names
    nm_protected,   \* the text protect_names returned
    nm_names,       \* the labels protect_names returned
    nm_restored,    \* the text restore_names returned
    tr_pc,          \* NewsTranslator.run: "start", "summary", "content", "write",
                    \* "done", "aborted" (returned early) or "raised"
    tr_input,       \* the cleaned data file run reads
    tr_data,        \* data, the list run loaded and updates in place
    tr_idx,         \* the position of the for loop in data (1-based)
    tr_preferred,   \* self.preferred_api
    tr_test_mode,   \* self.test_mode
    tr_usage,       \* what DeepL's usage endpoint answers
    tr_queries,     \* the calls of get_account_usage made
    tr_output,      \* the translated data file
    tr_given,       \* the argument of the last translate_text call
    tr_result,      \* what the last translate_text call returned
    tr_calls,       \* the provider calls the last translate_text call made
    tr_ncalls,      \* the translate_text calls made
    tr_raised_in,   \* where the exception that ended run came from, or "none"
    cl_pc,          \* DataCleaner.run: "start", "dedup", "clean_text",
                    \* "completeness", "save", "validate", "missing",
                    \* "wordcloud", "final", "done" or "raised"
    cl_input,       \* the records of the input file
    cl_items,       \* the dicts json.load created, updated in place
    cl_raw,         \* raw_data
    cl_unique,      \* data_without_duplicates
    cl_cleaned,     \* self.cleaned_data
    cl_incomplete,  \* self.incomplete_data
    cl_duplicate,   \* self.duplicate_data
    cl_nokey,       \* the items logged as having no audio_link
    cl_output,      \* the file at self.output_file
    cl_incfile,     \* incomplete_data.json
    cl_dupfile,     \* duplicate_data.json
    cl_wordcloud,   \* whether the word cloud file was written
    cl_raised_in,   \* where the exception that ended run came from, or "none"
    dd_pc,          \* check_duplicates called on its own result: "start", "once", "twice"
    dd_items,       \* the records of the first call
    dd_unique,      \* what the first call returned
    dd_before,      \* self.duplicate_data after the first call
    dd_again,       \* what the second call returned
    dd_duplicate,   \* self.duplicate_data
    st_pc,          \* the cleaning stage: "new", "constructed", "load", "cleaning", "returned" or "raised"
    st_dir,         \* whether the input directory exists
    st_files,       \* the files of the input directory, by name
    st_input_file,  \* the file name __init__ selected, or NoName
    st_raised,      \* the exception that ended the constructor, or "none"
    pb_pc,          \* wordpress_updater.main: "start", "loop", "done" or "raised"
    pb_news,        \* news_data, the records of the translated data file
    pb_test_mode,   \* the test_mode argument of main
    pb_existing,    \* existing_dates of main
    pb_idx,         \* the position of the for loop of main in news_data
    pb_page,        \* the content of the page on the server
    pb_posts,       \* the page updates made (successful POST requests)
    pb_errors,      \* the logging.error calls made
    pb_published,   \* the dates logged as added successfully
    pb_last,        \* how the requests of the last step went: "ok", "fail" or "skipped"
    pb_runs,        \* the runs of main started
    pb_raised,      \* the exception that ended main, or "none"
    rc_pc,          \* two calls of add_news_to_page: per call "check", "get", "post", "added", "exists", "failed" or "raised"
    rc_news,        \* news_data, the record both calls publish
    rc_existing,    \* existing_dates of each call
    rc_content,     \* page_content of each call
    rc_page,        \* the content of the page on the server
    rc_writes       \* the calls whose POST request succeeded, in order

namesVars == <<nm_pc, nm_text, nm_protected, nm_names, nm_restored>>

transVars == <<tr_pc, tr_input, tr_data, tr_idx, tr_preferred, tr_test_mode,
               tr_usage, tr_queries, tr_output, tr_given, tr_result, tr_calls,
               tr_ncalls, tr_raised_in>>

cleanVars == <<cl_pc, cl_input, cl_items, cl_raw, cl_unique, cl_cleaned,
               cl_incomplete, cl_duplicate, cl_nokey, cl_output, cl_incfile,
               cl_dupfile, cl_wordcloud, cl_raised_in>>

dedupVars == <<dd_pc, dd_items, dd_unique, dd_before, dd_again, dd_duplicate>>

stageVars == <<st_pc, st_dir, st_files, st_input_file, st_raised>>

pubVars == <<pb_pc, pb_news, pb_test_mode, pb_existing, pb_idx, pb_page, pb_posts, pb_errors, pb_published, pb_last, pb_runs, pb_raised>>

raceVars == <<rc_pc, rc_news, rc_existing, rc_content, rc_page, rc_writes>>

vars == <<namesVars, transVars, cleanVars, dedupVars, stageVars, pubVars, raceVars>>

\* what the steps of one program leave alone: the state of the others
namesFrame == <<transVars, cleanVars, dedupVars, stageVars, pubVars, raceVars>>
transFrame == <<namesVars, cleanVars, dedupVars, stageVars, pubVars, raceVars>>
cleanFrame == <<namesVars, transVars, dedupVars, stageVars, pubVars, raceVars>>
dedupFrame == <<namesVars, transVars, cleanVars, stageVars, pubVars, raceVars>>
stageFrame == <<namesVars, transVars, cleanVars, dedupVars, pubVars, raceVars>>
pubFrame == <<namesVars, transVars, cleanVars, dedupVars, stageVars, raceVars>>

\* what the steps of the stage before clean_data leave alone, besides the
\* state of DataCleaner.run
loadFrame == <<namesVars, transVars, dedupVars, pubVars, raceVars>>
raceFrame == <<namesVars, transVars, cleanVars, dedupVars, stageVars, pubVars>>

\* a file that does not exist, and a file holding a JSON array
NoFile == [exists |-> FALSE, data |-> <<>>]
FileOf(data) == [exists |-> TRUE, data |-> data]

\* the values of a group of variables while another part of the pipeline runs
NamesIdle ==
    /\ nm_pc = "idle"
    /\ nm_text = <<>>
    /\ nm_protected = <<>>
    /\ nm_names = <<>>
    /\ nm_restored = <<>>

TransIdle ==
    /\ tr_pc = "idle"
    /\ tr_input = NoFile
    /\ tr_data = <<>>
    /\ tr_idx = 0
    /\ tr_preferred = "DEEPL"
    /\ tr_test_mode = TRUE
    /\ tr_usage = [kind |-> "fail", used |-> 0, limit |-> 0]
    /\ tr_queries = 0
    /\ tr_output = NoFile
    /\ tr_given = <<>>
    /\ tr_result = <<>>
    /\ tr_calls = <<>>
    /\ tr_ncalls = 0
    /\ tr_raised_in = "none"

CleanIdle ==
    /\ cl_pc = "idle"
    /\ cl_input = <<>>
    /\ cl_items = <<>>
    /\ cl_raw = <<>>
    /\ cl_unique = <<>>
    /\ cl_cleaned = <<>>
    /\ cl_incomplete = <<>>
    /\ cl_duplicate = <<>>
    /\ cl_nokey = <<>>
    /\ cl_output = NoFile
    /\ cl_incfile = NoFile
    /\ cl_dupfile = NoFile
    /\ cl_wordcloud = FALSE
    /\ cl_raised_in = "none"

DedupIdle ==
    /\ dd_pc = "idle"
    /\ dd_items = <<>>
    /\ dd_unique = <<>>
    /\ dd_before = <<>>
    /\ dd_again = <<>>
    /\ dd_duplicate = <<>>

StageIdle ==
    /\ st_pc = "idle"
    /\ st_dir = FALSE
    /\ st_files = <<>>
    /\ st_input_file = <<>>
    /\ st_raised = "none"

PubIdle ==
    /\ pb_pc = "idle"
    /\ pb_news = <<>>
    /\ pb_test_mode = FALSE
    /\ pb_existing = <<>>
    /\ pb_idx = 0
    /\ pb_page = <<>>
    /\ pb_posts = 0
    /\ pb_errors = 0
    /\ pb_published = {}
    /\ pb_last = <<>>
    /\ pb_runs = 0
    /\ pb_raised = "none"

RaceIdle ==
    /\ rc_pc = <<>>
    /\ rc_news = <<>>
    /\ rc_existing = <<>>
    /\ rc_content = <<>>
    /\ rc_page = <<>>
    /\ rc_writes = <<>>

\* the other programs are not running
NamesRestIdle == TransIdle /\ CleanIdle /\ DedupIdle /\ StageIdle /\ PubIdle /\ RaceIdle
TransRestIdle == NamesIdle /\ CleanIdle /\ DedupIdle /\ StageIdle /\ PubIdle /\ RaceIdle
CleanRestIdle == NamesIdle /\ TransIdle /\ DedupIdle /\ StageIdle /\ PubIdle /\ RaceIdle
DedupRestIdle == NamesIdle /\ TransIdle /\ CleanIdle /\ StageIdle /\ PubIdle /\ RaceIdle
StageRestIdle == NamesIdle /\ TransIdle /\ CleanIdle /\ DedupIdle /\ PubIdle /\ RaceIdle
PubRestIdle == NamesIdle /\ TransIdle /\ CleanIdle /\ DedupIdle /\ StageIdle /\ RaceIdle
LoadRestIdle == NamesIdle /\ TransIdle /\ DedupIdle /\ PubIdle /\ RaceIdle
RaceRestIdle == NamesIdle /\ TransIdle /\ CleanIdle /\ DedupIdle /\ StageIdle /\ PubIdle

(***************************************************************************)
(* The label round trip: protect_names, an intervening step that passes    *)
(* the protected text through unchanged, restore_names.                    *)
(***************************************************************************)
\* the characters of the input texts of the round trip
TextChars == {"A", "D", ":", NL, "x"}

\* the texts of at most n characters
TextsUpTo(n) == UNION {[1..k -> TextChars] : k \in 0..n}

NamesInit ==
    /\ nm_pc = "input"
    /\ nm_text \in TextsUpTo(MaxTextLen)
    /\ nm_protected = <<>>
    /\ nm_names = <<>>
    /\ nm_restored = <<>>
    /\ NamesRestIdle

\* protected_text, names = self.protect_names(text)
Protect ==
    /\ nm_pc = "input"
    /\ nm_pc' = "protected"
    /\ nm_protected' = protect_names(nm_text).text
    /\ nm_names' = protect_names(nm_text).names
    /\ UNCHANGED <<nm_text, nm_restored, namesFrame>>

\* translated_text = self.restore_names(translated_text, names), on the
\* protected text as it is
Restore ==
    /\ nm_pc = "protected"
    /\ nm_pc' = "restored"
    /\ nm_restored' = restore_names(nm_protected, nm_names)
    /\ UNCHANGED <<nm_text, nm_protected, nm_names, namesFrame>>

NamesNext == Protect \/ Restore

SpecNames == NamesInit /\ [][NamesNext]_vars

(***************************************************************************)
(* NewsTranslator.run.                                                     *)
(***************************************************************************)
\* most records in the cleaned data file
MaxItems == 2

\* "A:x", a text with a speaker label
TxLabel == <<"A", ":", "x">>
\* "x", a text without one
TxPlain == <<"x">>
\* a text with a label that also holds the first placeholder token
TxToken == <<"A", ":">> \o Placeholder(0)

\* the records of the cleaned data file
TransRecords ==
    {[date |-> "20230101", summary |-> TxLabel, content |-> TxPlain],
     [date |-> "20230102", summary |-> TxToken, content |-> TxLabel]}

\* what DeepL's usage endpoint can answer: the counters, no answer (transport
\* or JSON failure), or JSON without the counters (KeyError)
UsageAnswers ==
    {[kind |-> "ok", used |-> u, limit |-> 1] : u \in 0..2}
    \cup {[kind |-> "fail", used |-> 0, limit |-> 0],
          [kind |-> "badshape", used |-> 0, limit |-> 0]}

TransInit ==
    /\ tr_pc = "start"
    /\ tr_input \in {NoFile}
                    \cup {FileOf(d) : d \in UNION {[1..k -> TransRecords] : k \in 0..MaxItems}}
    /\ tr_data = <<>>
    /\ tr_idx = 0
    /\ tr_preferred \in {"DEEPL", "MICROSOFT"}
    /\ tr_test_mode \in BOOLEAN
    /\ tr_usage \in UsageAnswers
    /\ tr_queries = 0
    /\ tr_output = NoFile
    /\ tr_given = <<>>
    /\ tr_result = <<>>
    /\ tr_calls = <<>>
    /\ tr_ncalls = 0
    /\ tr_raised_in = "none"
    /\ TransRestIdle

\* a variant of QuotaReached: the gate closes only beyond the limit
QuotaReached_Beyond(used, limit) == used > limit

\* if used_characters >= character_limit
QuotaReached(used, limit) == used >= limit

\* if self.preferred_api == "DEEPL"
UsageChecked(preferred_api) == preferred_api = "DEEPL"

\* a variant of TranslatesContent: the content is translated in every mode
TranslatesContent_Always(test_mode) == TRUE

\* if not self.test_mode
TranslatesContent(test_mode) == ~test_mode

\* a variant of LoopOn: the loop ends after the first record
LoopOn_FirstOnly(i, data) ==
    IF i < 1 /\ i < Len(data) THEN [pc |-> "summary", idx |-> i + 1]
    ELSE [pc |-> "write", idx |-> i]

\* where the loop goes once the record at i is done
LoopOn(i, data) ==
    IF i < Len(data) THEN [pc |-> "summary", idx |-> i + 1]
    ELSE [pc |-> "write", idx |-> i]

\* run up to the for loop: load the input, then the usage gate
TrStart ==
    /\ tr_pc = "start"
    /\ IF ~tr_input.exists
       THEN \* open() raises FileNotFoundError
            /\ tr_pc' = "raised"
            /\ tr_raised_in' = "load"
            /\ UNCHANGED <<tr_data, tr_idx, tr_queries>>
       ELSE /\ tr_data' = tr_input.data
            /\ tr_queries' = IF UsageChecked(tr_preferred) THEN tr_queries + 1 ELSE tr_queries
            /\ IF UsageChecked(tr_preferred) /\ tr_usage.kind = "badshape"
               THEN tr_pc' = "raised" /\ tr_raised_in' = "usage" /\ tr_idx' = tr_idx
               ELSE IF UsageChecked(tr_preferred)
                       /\ (tr_usage.kind = "fail"
                           \/ QuotaReached(tr_usage.used, tr_usage.limit))
                    THEN tr_pc' = "aborted" /\ tr_idx' = tr_idx
                         /\ UNCHANGED tr_raised_in
                    ELSE /\ tr_pc' = LoopOn(0, tr_input.data).pc
                         /\ tr_idx' = LoopOn(0, tr_input.data).idx
                         /\ UNCHANGED tr_raised_in
    /\ UNCHANGED <<tr_input, tr_preferred, tr_test_mode, tr_usage, tr_output,
                   tr_given, tr_result, tr_calls, tr_ncalls, transFrame>>

\* item['summary'] = self.translate_text(item['summary'])
TrSummary ==
    /\ tr_pc = "summary"
    /\ \E dOut \in DeepLOutcomes, aOut \in AzureOutcomes :
       \E r \in {translate_text(tr_data[tr_idx].summary, tr_preferred, dOut, aOut)} :
         LET next == IF TranslatesContent(tr_test_mode)
                     THEN [pc |-> "content", idx |-> tr_idx]
                     ELSE LoopOn(tr_idx, tr_data)
         IN  /\ tr_given' = tr_data[tr_idx].summary
             /\ tr_calls' = r.calls
             /\ tr_ncalls' = tr_ncalls + 1
             /\ IF r.raised
                THEN /\ tr_pc' = "raised"
                     /\ tr_raised_in' = "translate_text"
                     /\ UNCHANGED <<tr_data, tr_idx, tr_result>>
                ELSE /\ tr_data' = [tr_data EXCEPT ![tr_idx].summary = r.result]
                     /\ tr_result' = r.result
                     /\ tr_pc' = next.pc
                     /\ tr_idx' = next.idx
                     /\ UNCHANGED tr_raised_in
    /\ UNCHANGED <<tr_input, tr_preferred, tr_test_mode, tr_usage, tr_queries,
                   tr_output, transFrame>>

\* item['content'] = self.translate_text(item['content'])
TrContent ==
    /\ tr_pc = "content"
    /\ \E dOut \in DeepLOutcomes, aOut \in AzureOutcomes :
       \E r \in {translate_text(tr_data[tr_idx].content, tr_preferred, dOut, aOut)} :
         LET              next == LoopOn(tr_idx, tr_data)
         IN  /\ tr_given' = tr_data[tr_idx].content
             /\ tr_calls' = r.calls
             /\ tr_ncalls' = tr_ncalls + 1
             /\ IF r.raised
                THEN /\ tr_pc' = "raised"
                     /\ tr_raised_in' = "translate_text"
                     /\ UNCHANGED <<tr_data, tr_idx, tr_result>>
                ELSE /\ tr_data' = [tr_data EXCEPT ![tr_idx].content = r.result]
                     /\ tr_result' = r.result
                     /\ tr_pc' = next.pc
                     /\ tr_idx' = next.idx
                     /\ UNCHANGED tr_raised_in
    /\ UNCHANGED <<tr_input, tr_preferred, tr_test_mode, tr_usage, tr_queries,
                   tr_output, transFrame>>

\* json.dump(data, f) into the translated data file
TrWrite ==
    /\ tr_pc = "write"
    /\ tr_output' = FileOf(tr_data)
    /\ tr_pc' = "done"
    /\ UNCHANGED <<tr_input, tr_data, tr_idx, tr_preferred, tr_test_mode, tr_usage,
                   tr_queries, tr_given, tr_result, tr_calls, tr_ncalls,
                   tr_raised_in, transFrame>>

TransNext == TrStart \/ TrSummary \/ TrContent \/ TrWrite

SpecTranslate == TransInit /\ [][TransNext]_vars

(***************************************************************************)
(* DataCleaner.run.                                                        *)
(***************************************************************************)
\* most records in the input file
MaxRecords == 4

\* "20230101" and "2023-01-01"
GoodDate == <<"2", "0", "2", "3", "0", "1", "0", "1">>
BadDate == <<"2", "0", "2", "3", "-", "0", "1", "-", "0", "1">>

\* the summaries of the input: "s", "", null, and a backslash before a line
\* break, which unicode_escape decodes to nothing
Summaries == {StrF(<<"s">>), StrF(<<>>), NoneF, StrF(<<BS, NL>>)}

\* a record of the input file
Rec(link, fdate, summary) ==
    [date |-> StrF(<<"d">>), formatted_date |-> StrF(fdate), summary |-> summary,
     content |-> StrF(<<"A", ":", "c", BS, "n">>), audio_link |-> link,
     missing_fields |-> AbsentF]

\* the records the input file can hold: with an audio link "x" or "y", a
\* valid date and any summary, or the other date and a plain summary; with no
\* audio link (absent or ""), a valid date and a plain summary
InputRecords ==
    {Rec(l, GoodDate, sm) : l \in {StrF(<<"x">>), StrF(<<"y">>)}, sm \in Summaries}
    \cup {Rec(l, BadDate, StrF(<<"s">>)) : l \in {StrF(<<"x">>), StrF(<<"y">>)}}
    \cup {Rec(l, GoodDate, StrF(<<"s">>)) : l \in {AbsentF, StrF(<<>>)}}

CleanInit ==
    /\ cl_pc = "start"
    /\ cl_input \in UNION {[1..k -> InputRecords] : k \in 0..MaxRecords}
    /\ cl_items = <<>>
    /\ cl_raw = <<>>
    /\ cl_unique = <<>>
    /\ cl_cleaned = <<>>
    /\ cl_incomplete = <<>>
    /\ cl_duplicate = <<>>
    /\ cl_nokey = <<>>
    /\ cl_output = NoFile
    /\ cl_incfile = NoFile
    /\ cl_dupfile = NoFile
    /\ cl_wordcloud = FALSE
    /\ cl_raised_in = "none"
    /\ CleanRestIdle

\* os.path.dirname(file) is not '': self.output_file is configured with its
\* directory, the two side files are named without one
HasDirname(file) == file = "output_file"

\* save_data(data, file) raises: os.makedirs('') raises FileNotFoundError
SaveRaises(data, file) == data # <<>> /\ ~HasDirname(file)

\* a variant of SaveWrites: an empty list is written too
SaveWrites_Always(data, file) == HasDirname(file)

\* save_data(data, file) writes the file
SaveWrites(data, file) == data # <<>> /\ HasDirname(file)

\* the content of a file after save_data(data, file)
Saved(old, items, data, file) ==
    IF SaveWrites(data, file) THEN FileOf(Deref(items, data)) ELSE old

\* run up to load_data: the checks of run pass, clean_data loads the input
ClLoad ==
    /\ cl_pc = "start"
    /\ cl_items' = cl_input
    /\ cl_raw' = [k \in 1..Len(cl_input) |-> k]
    /\ cl_pc' = IF cl_input = <<>> THEN "validate" ELSE "dedup"
    /\ UNCHANGED <<cl_input, cl_unique, cl_cleaned, cl_incomplete, cl_duplicate,
                   cl_nokey, cl_output, cl_incfile, cl_dupfile, cl_wordcloud,
                   cl_raised_in, cleanFrame>>

\* data_without_duplicates = self.check_duplicates(raw_data)
ClDedup ==
    /\ cl_pc = "dedup"
    /\ \E r \in {check_duplicates(cl_items, cl_raw)} :
          /\ cl_unique' = r.unique
          /\ cl_duplicate' = cl_duplicate \o r.duplicate
          /\ cl_nokey' = cl_nokey \o r.nokey
    /\ cl_pc' = "clean_text"
    /\ UNCHANGED <<cl_input, cl_items, cl_raw, cl_cleaned, cl_incomplete, cl_output,
                   cl_incfile, cl_dupfile, cl_wordcloud, cl_raised_in, cleanFrame>>

\* for item in data_without_duplicates: clean_text of summary and content
ClCleanText ==
    /\ cl_pc = "clean_text"
    /\ \E r \in {CleanLoop(cl_items, cl_unique, 1)} :
          /\ cl_items' = r.items
          /\ cl_pc' = IF r.raised THEN "raised" ELSE "completeness"
          /\ cl_raised_in' = IF r.raised THEN "clean_text" ELSE cl_raised_in
    /\ UNCHANGED <<cl_input, cl_raw, cl_unique, cl_cleaned, cl_incomplete,
                   cl_duplicate, cl_nokey, cl_output, cl_incfile, cl_dupfile,
                   cl_wordcloud, cleanFrame>>

\* a variant of ClCompleteness: completeness is judged on raw_data, as if the
\* dedup pass had not run
ClCompleteness_OnRaw ==
    /\ cl_pc = "completeness"
    /\ \E r \in {check_completeness(cl_items, cl_raw)} :
          /\ cl_cleaned' = r.complete
          /\ cl_incomplete' = cl_incomplete \o r.incomplete
    /\ cl_pc' = "save"
    /\ UNCHANGED <<cl_input, cl_items, cl_raw, cl_unique, cl_duplicate, cl_nokey,
                   cl_output, cl_incfile, cl_dupfile, cl_wordcloud, cl_raised_in,
                   cleanFrame>>

\* self.cleaned_data = self.check_completeness(data_without_duplicates)
ClCompleteness ==
    /\ cl_pc = "completeness"
    /\ \E r \in {check_completeness(cl_items, cl_unique)} :
          /\ cl_cleaned' = r.complete
          /\ cl_incomplete' = cl_incomplete \o r.incomplete
    /\ cl_pc' = "save"
    /\ UNCHANGED <<cl_input, cl_items, cl_raw, cl_unique, cl_duplicate, cl_nokey,
                   cl_output, cl_incfile, cl_dupfile, cl_wordcloud, cl_raised_in,
                   cleanFrame>>

\* the three save_data calls that end clean_data
ClSave ==
    /\ cl_pc = "save"
    /\ cl_output' = Saved(cl_output, cl_items, cl_cleaned, "output_file")
    /\ cl_incfile' = Saved(cl_incfile, cl_items, cl_incomplete, "incomplete_data.json")
    /\ cl_dupfile' = IF SaveRaises(cl_incomplete, "incomplete_data.json") THEN cl_dupfile
                     ELSE Saved(cl_dupfile, cl_items, cl_duplicate, "duplicate_data.json")
    /\ IF SaveRaises(cl_cleaned, "output_file")
          \/ SaveRaises(cl_incomplete, "incomplete_data.json")
          \/ SaveRaises(cl_duplicate, "duplicate_data.json")
       THEN cl_pc' = "raised" /\ cl_raised_in' = "save_data"
       ELSE cl_pc' = "validate" /\ UNCHANGED cl_raised_in
    /\ UNCHANGED <<cl_input, cl_items, cl_raw, cl_unique, cl_cleaned, cl_incomplete,
                   cl_duplicate, cl_nokey, cl_wordcloud, cleanFrame>>

\* self.cleaned_data = self.validate_data(self.cleaned_data)
ClValidate ==
    /\ cl_pc = "validate"
    /\ cl_cleaned' = validate_data(cl_items, cl_cleaned)
    /\ cl_pc' = "missing"
    /\ UNCHANGED <<cl_input, cl_items, cl_raw, cl_unique, cl_incomplete, cl_duplicate,
                   cl_nokey, cl_output, cl_incfile, cl_dupfile, cl_wordcloud,
                   cl_raised_in, cleanFrame>>

\* self.handle_missing_data(), with or without the MP3 files on disk
ClHandleMissing ==
    /\ cl_pc = "missing"
    /\ \E mp3_exists \in BOOLEAN :
          cl_items' = HandleLoop(cl_items, cl_cleaned, 1, mp3_exists)
    /\ cl_pc' = "wordcloud"
    /\ UNCHANGED <<cl_input, cl_raw, cl_unique, cl_cleaned, cl_incomplete,
                   cl_duplicate, cl_nokey, cl_output, cl_incfile, cl_dupfile,
                   cl_wordcloud, cl_raised_in, cleanFrame>>

\* self.generate_summary_and_wordcloud(): nothing without cleaned data;
\* otherwise the library draws the cloud, or raises ValueError when the text
\* holds no word it counts
ClWordcloud ==
    /\ cl_pc = "wordcloud"
    /\ \/ /\ cl_cleaned = <<>>
          /\ cl_pc' = "final"
          /\ UNCHANGED <<cl_wordcloud, cl_raised_in>>
       \/ /\ cl_cleaned # <<>>
          /\ cl_wordcloud' = TRUE
          /\ cl_pc' = "final"
          /\ UNCHANGED cl_raised_in
       \/ /\ cl_cleaned # <<>>
          /\ cl_pc' = "raised"
          /\ cl_raised_in' = "wordcloud"
          /\ UNCHANGED cl_wordcloud
    /\ UNCHANGED <<cl_input, cl_items, cl_raw, cl_unique, cl_cleaned, cl_incomplete,
                   cl_duplicate, cl_nokey, cl_output, cl_incfile, cl_dupfile,
                   cleanFrame>>

\* self.save_data(self.cleaned_data, self.output_file), the last step of run
ClSaveFinal ==
    /\ cl_pc = "final"
    /\ cl_output' = Saved(cl_output, cl_items, cl_cleaned, "output_file")
    /\ cl_pc' = "done"
    /\ UNCHANGED <<cl_input, cl_items, cl_raw, cl_unique, cl_cleaned, cl_incomplete,
                   cl_duplicate, cl_nokey, cl_incfile, cl_dupfile, cl_wordcloud,
                   cl_raised_in, cleanFrame>>

CleanNext ==
    \/ ClLoad \/ ClDedup \/ ClCleanText \/ ClCompleteness \/ ClSave
    \/ ClValidate \/ ClHandleMissing \/ ClWordcloud \/ ClSaveFinal

SpecClean == CleanInit /\ [][CleanNext]_vars

(***************************************************************************)
(* The cleaning stage from its construction: DataCleaner(...) selects the  *)
(* input file, run checks it, load_data reads the directory, and the       *)
(* steps of DataCleaner.run follow.                                        *)
(***************************************************************************)
\* no file name
NoName == <<>>

\* "202301.json", "202302.json" and "backup.json"
Name202301 == <<"2", "0", "2", "3", "0", "1", ".", "j", "s", "o", "n">>
Name202302 == <<"2", "0", "2", "3", "0", "2", ".", "j", "s", "o", "n">>
NameBackup == <<"b", "a", "c", "k", "u", "p", ".", "j", "s", "o", "n">>

\* the names a file of the input directory can have
FileNames == {Name202301, Name202302, NameBackup}

DotJson == <<".", "j", "s", "o", "n">>

\* re.compile(r'^\d{6}\.json$').match(f)
MatchesDated(f) ==
    /\ Len(f) = 11
    /\ AllDigits(SubSeq(f, 1, 6))
    /\ SubSeq(f, 7, 11) = DotJson

\* f.endswith('.json')
EndsWithJson(f) == Len(f) >= 5 /\ SubSeq(f, Len(f) - 4, Len(f)) = DotJson

\* a < b for strings, as sort compares them
RECURSIVE StrLess(_, _)
StrLess(a, b) ==
    IF b = <<>> THEN FALSE
    ELSE IF a = <<>> THEN TRUE
    ELSE IF Head(a) = Head(b) THEN StrLess(Tail(a), Tail(b))
    ELSE IF Head(a) \in DigitChars /\ Head(b) \in DigitChars
         THEN DigitsVal(<<Head(a)>>) < DigitsVal(<<Head(b)>>)
         ELSE Head(a) \in DigitChars

\* a file of the directory: absent, of size 0, not JSON, or a JSON array
AbsentFile == [k |-> "absent", data |-> <<>>]
ZeroFile == [k |-> "zero", data |-> <<>>]
MalformedFile == [k |-> "malformed", data |-> <<>>]
JsonFile(data) == [k |-> "json", data |-> data]

\* os.path.isfile(os.path.join(self.directory, f))
IsFile(files, f) == files[f].k # "absent"

\* the files get_latest_data_file sorts
DatedFiles(files) == {f \in FileNames : IsFile(files, f) /\ MatchesDated(f)}

\* get_latest_data_file(): files.sort(reverse=True); files[0] if files else None
get_latest_data_file(files) ==
    IF DatedFiles(files) = {} THEN NoName
    ELSE CHOOSE f \in DatedFiles(files) :
            \A g \in DatedFiles(files) : g = f \/ StrLess(g, f)

\* json_files of load_data
JsonFiles(files) == {f \in FileNames : IsFile(files, f) /\ EndsWithJson(f)}

\* the orders os.listdir can give the names in
Orders(names) ==
    {o \in [1..Cardinality(names) -> names] :
        \A i, j \in 1..Cardinality(names) : i # j => o[i] # o[j]}

RECURSIVE ExtendAll(_, _, _)
\* all_data.extend(data) for the files of order from the k-th on
ExtendAll(files, order, k) ==
    IF k > Len(order) THEN <<>>
    ELSE files[order[k]].data \o ExtendAll(files, order, k + 1)

\* a variant of LoadedData: a file json.load cannot decode is skipped
LoadedData_SkipBad(files, order) == ExtendAll(files, order, 1)

\* what load_data returns: json.load raises JSONDecodeError on a file of size 0
\* or one that is not JSON, and the except clause returns []
LoadedData(files, order) ==
    IF \E i \in 1..Len(order) : files[order[i]].k \in {"zero", "malformed"}
    THEN <<>>
    ELSE ExtendAll(files, order, 1)

\* the records the files hold: "x" or "y" with a valid date, "x" with the
\* other date
StageRecords ==
    {Rec(StrF(<<"x">>), GoodDate, StrF(<<"s">>)), Rec(StrF(<<"y">>), GoodDate, StrF(<<"s">>)),
     Rec(StrF(<<"x">>), BadDate, StrF(<<"s">>))}

\* what a file of the directory can be
FileStates ==
    {AbsentFile, ZeroFile, MalformedFile, JsonFile(<<>>)}
    \cup {JsonFile(<<r>>) : r \in StageRecords}

StageInit ==
    /\ st_pc = "new"
    /\ st_dir \in BOOLEAN
    /\ st_files \in [FileNames -> FileStates]
    /\ ~st_dir => \A f \in FileNames : st_files[f] = AbsentFile
    /\ st_input_file = NoName
    /\ st_raised = "none"
    /\ cl_pc = "idle"
    /\ cl_input = <<>>
    /\ cl_items = <<>>
    /\ cl_raw = <<>>
    /\ cl_unique = <<>>
    /\ cl_cleaned = <<>>
    /\ cl_incomplete = <<>>
    /\ cl_duplicate = <<>>
    /\ cl_nokey = <<>>
    /\ cl_output = NoFile
    /\ cl_incfile = NoFile
    /\ cl_dupfile = NoFile
    /\ cl_wordcloud = FALSE
    /\ cl_raised_in = "none"
    /\ LoadRestIdle

\* DataCleaner(...): os.listdir in get_latest_data_file raises when the
\* directory is missing; no dated file raises ValueError
StConstruct ==
    /\ st_pc = "new"
    /\ IF ~st_dir
       THEN st_pc' = "raised" /\ st_raised' = "FileNotFoundError"
            /\ UNCHANGED st_input_file
       ELSE IF get_latest_data_file(st_files) = NoName
            THEN st_pc' = "raised" /\ st_raised' = "ValueError"
                 /\ UNCHANGED st_input_file
            ELSE st_pc' = "constructed"
                 /\ st_input_file' = get_latest_data_file(st_files)
                 /\ UNCHANGED st_raised
    /\ UNCHANGED <<st_dir, st_files, cleanVars, loadFrame>>

\* between the constructor and run the directory, or the selected file, is
\* removed
StVanish ==
    /\ st_pc = "constructed"
    /\ st_dir
    /\ \/ /\ st_dir' = FALSE
          /\ st_files' = [f \in FileNames |-> AbsentFile]
       \/ /\ IsFile(st_files, st_input_file)
          /\ st_files' = [st_files EXCEPT ![st_input_file] = AbsentFile]
          /\ UNCHANGED st_dir
    /\ UNCHANGED <<st_pc, st_input_file, st_raised, cleanVars, loadFrame>>

\* run: the three checks before clean_data
StRunChecks ==
    /\ st_pc = "constructed"
    /\ st_pc' = IF ~st_dir THEN "returned"
                ELSE IF ~IsFile(st_files, st_input_file) THEN "returned"
                ELSE IF st_files[st_input_file].k = "zero" THEN "returned"
                ELSE "load"
    /\ UNCHANGED <<st_dir, st_files, st_input_file, st_raised, cleanVars, loadFrame>>

\* clean_data: raw_data = self.load_data(), in one of the orders of os.listdir
StLoad ==
    /\ st_pc = "load"
    /\ \E order \in Orders(JsonFiles(st_files)) :
          /\ cl_input' = LoadedData(st_files, order)
          /\ cl_items' = LoadedData(st_files, order)
          /\ cl_raw' = [k \in 1..Len(LoadedData(st_files, order)) |-> k]
          /\ cl_pc' = IF LoadedData(st_files, order) = <<>> THEN "validate" ELSE "dedup"
    /\ st_pc' = "cleaning"
    /\ UNCHANGED <<st_dir, st_files, st_input_file, st_raised, cl_unique, cl_cleaned,
                   cl_incomplete, cl_duplicate, cl_nokey, cl_output, cl_incfile,
                   cl_dupfile, cl_wordcloud, cl_raised_in, loadFrame>>

StageNext ==
    \/ StConstruct \/ StVanish \/ StRunChecks \/ StLoad
    \/ ClDedup \/ ClCleanText \/ ClCompleteness \/ ClSave
    \/ ClValidate \/ ClHandleMissing \/ ClWordcloud \/ ClSaveFinal

SpecStage == StageInit /\ [][StageNext]_vars

\* C16: the raw records of a run are the records of the selected file, the
\* greatest dated name of the directory, and of no other file.
C16_OnlyLatestFile ==
    st_pc = "cleaning" =>
        /\ st_input_file = get_latest_data_file(st_files)
        /\ cl_input = st_files[st_input_file].data

\* the directory is missing, or the selected file is missing, of size 0 or
\* not JSON
InputUnusable ==
    \/ st_pc \in {"raised", "returned"}
    \/ /\ st_pc \in {"constructed", "load", "cleaning"}
       /\ \/ ~st_dir
          \/ st_files[st_input_file].k \in {"absent", "zero", "malformed"}

ItemOpen ==
    <<"<", "l", "i", ">", "<", "a", " ", "h", "r", "e", "f", "=">>

\* '">'
QuoteGt == <<"\"", ">">>

\* '</a'
AnchorClose == <<"<", "/", "a">>

\* '</ul>'
ListClose == <<"<", "/", "u", "l", ">">>

\* '"https://www.zhurong.link/english/'
LinkHead ==
    <<"\"", "h", "t", "t", "p", "s", ":", "/", "/", "w", "w", "w", ".", "z",
      "h", "u", "r", "o", "n", "g", ".", "l", "i", "n", "k", "/", "e", "n",
      "g", "l", "i", "s", "h", "/">>

\* '-morning-news-brief-npr/'
LinkTail ==
    <<"-", "m", "o", "r", "n", "i", "n", "g", "-", "n", "e", "w", "s", "-",
      "b", "r", "i", "e", "f", "-", "n", "p", "r", "/">>

\* '</a></li>'
ItemClose == <<"<", "/", "a", ">", "<", "/", "l", "i", ">">>

RECURSIVE Split(_, _)
\* the pieces of s from its first occurrence of sep, at i, on
SplitAt(s, sep, i) ==
    IF i = 0 THEN <<s>>
    ELSE <<SubSeq(s, 1, i - 1)>> \o Split(SubSeq(s, i + Len(sep), Len(s)), sep)

\* str.split(sep)
Split(s, sep) == SplitAt(s, sep, FirstOcc(s, sep))

\* s[a:b]
Slice(s, a, b) == SubSeq(s, a + 1, IF b < Len(s) THEN b ELSE Len(s))

\* date.split('">')[1] raises IndexError
NoDateIn(piece) == Len(Split(piece, QuoteGt)) < 2

\* date.split('">')[1].split('</a')[0]
DateIn(piece) == Split(Split(piece, QuoteGt)[2], AnchorClose)[1]

\* the list comprehension of get_existing_news_dates over the pieces of the
\* rendered content: raised (IndexError) or the list of dates
DatesOf(pieces) ==
    IF \E n \in 1..Len(pieces) : NoDateIn(pieces[n])
    THEN [raised |-> TRUE, dates |-> <<>>]
    ELSE [raised |-> FALSE, dates |-> [n \in 1..Len(pieces) |-> DateIn(pieces[n])]]

\* [... for date in content.split('<li><a href=')]
ExistingDates(content) == DatesOf(Split(content, ItemOpen))

\* a variant of get_existing_news_dates: a failed request raises instead of
\* giving []
get_existing_news_dates_Raises(content, ok) ==
    IF ok THEN ExistingDates(content) ELSE [raised |-> TRUE, dates |-> <<>>]

\* get_existing_news_dates(): the request succeeds (ok) and the content is
\* taken apart, or it raises RequestException and [] is returned
get_existing_news_dates(content, ok) ==
    IF ok THEN ExistingDates(content) ELSE [raised |-> FALSE, dates |-> <<>>]

\* f"{date[4:6]}-{date[6:8]}-{date[:4]}"
FormattedDate(date) ==
    Slice(date, 4, 6) \o <<"-">> \o Slice(date, 6, 8) \o <<"-">> \o Slice(date, 0, 4)

\* news_exists_for_date(date, existing_dates)
news_exists_for_date(date, existing_dates) ==
    \E n \in 1..Len(existing_dates) : existing_dates[n] = FormattedDate(date)

\* a variant of NewsItem: a list item without the link get_existing_news_dates
\* looks for
NewsItem_Plain(formatted_date) ==
    <<"<", "l", "i", ">">> \o formatted_date \o <<"<", "/", "l", "i", ">">>

\* news_item of add_news_to_page
NewsItem(formatted_date) ==
    ItemOpen \o LinkHead \o formatted_date \o LinkTail \o QuoteGt \o formatted_date
        \o ItemClose

\* updated_content = page_content.replace('</ul>', f'{news_item}</ul>')
UpdatedContent(page_content, formatted_date) ==
    Replace(page_content, ListClose, NewsItem(formatted_date) \o ListClose)

\* most records in the translated data file, and most runs of main
MaxNews == 2
MaxRuns == 2

\* the date text of the scraper for two days, with the formatted_date it
\* derives from each, and a record whose date is already YYYYMMDD
PubRecords ==
    {[date |->
    <<"O", "c", "t", "o", "b", "e", "r", " ", "5", ",", " ", "2", "0", "2",
      "3", " ", "5", ":", "0", "9", " ", "A", "M", " ", "E", "T">>,
      formatted_date |->     <<"2", "0", "2", "3", "1", "0", "0", "5">>],
     [date |->
    <<"O", "c", "t", "o", "b", "e", "r", " ", "6", ",", " ", "2", "0", "2",
      "3", " ", "5", ":", "0", "9", " ", "A", "M", " ", "E", "T">>,
      formatted_date |->     <<"2", "0", "2", "3", "1", "0", "0", "6">>],
     [date |->     <<"2", "0", "2", "3", "1", "0", "0", "7">>,
      formatted_date |->     <<"2", "0", "2", "3", "1", "0", "0", "7">>]}

\* the page before the first run: an empty list with an attribute, an empty
\* list without one, the first with an entry for 10-07-2023
PageEmptyList ==
    <<"<", "u", "l", " ", "c", "l", "a", "s", "s", "=", "\"", "l", "\"",
      ">", "<", "/", "u", "l", ">">>
PageBareList ==
    <<"<", "u", "l", ">", "<", "/", "u", "l", ">">>
PageWithEntry == UpdatedContent(PageEmptyList,     <<"1", "0", "-", "0", "7", "-", "2", "0", "2", "3">>)

Pages == {PageEmptyList, PageBareList, PageWithEntry}

\* a page without a list, '<p class="l"></p>', and a page with two lists
PageNoList ==
    <<"<", "p", " ", "c", "l", "a", "s", "s", "=", "\"", "l", "\"", ">",
      "<", "/", "p", ">">>
PageTwoLists == PageEmptyList \o PageEmptyList

OddPages == {PageNoList, PageTwoLists}

\* no request made in a step
NoRequests == [fetch |-> "skipped", get |-> "skipped", post |-> "skipped"]

Outcome(ok) == IF ok THEN "ok" ELSE "fail"

PubInit ==
    /\ pb_pc = "start"
    /\ pb_news \in UNION {[1..k -> PubRecords] : k \in 0..MaxNews}
    /\ pb_test_mode \in BOOLEAN
    /\ pb_existing = <<>>
    /\ pb_idx = 0
    /\ pb_page \in Pages \cup OddPages
    /\ pb_posts = 0
    /\ pb_errors = 0
    /\ pb_published = {}
    /\ pb_last = NoRequests
    /\ pb_runs = 1
    /\ pb_raised = "none"
    /\ PubRestIdle

\* main up to the for loop: the data file is read (or open raises), the
\* existing dates are fetched once, the site is backed up unless test_mode
\* (or os.listdir raises)
PbStart ==
    /\ pb_pc = "start"
    /\ \E file_ok, fetch_ok, backup_ok \in BOOLEAN :
       \E r \in {get_existing_news_dates(pb_page, fetch_ok)} :
          /\ pb_last' = IF file_ok THEN [NoRequests EXCEPT !.fetch = Outcome(fetch_ok)]
                        ELSE NoRequests
          /\ pb_errors' = IF file_ok /\ ~fetch_ok THEN pb_errors + 1 ELSE pb_errors
          /\ IF ~file_ok
             THEN pb_pc' = "raised" /\ pb_raised' = "FileNotFoundError"
                  /\ UNCHANGED <<pb_existing, pb_idx>>
             ELSE IF r.raised
             THEN pb_pc' = "raised" /\ pb_raised' = "IndexError"
                  /\ UNCHANGED <<pb_existing, pb_idx>>
             ELSE IF ~pb_test_mode /\ ~backup_ok
             THEN pb_pc' = "raised" /\ pb_raised' = "FileNotFoundError"
                  /\ pb_existing' = r.dates /\ UNCHANGED pb_idx
             ELSE pb_pc' = "loop" /\ pb_existing' = r.dates /\ pb_idx' = 1
                  /\ UNCHANGED pb_raised
    /\ UNCHANGED <<pb_news, pb_test_mode, pb_page, pb_posts, pb_published, pb_runs,
                   pubFrame>>

\* add_news_to_page(news_data) with test_mode left False: the requests go
\* as fetch_ok, get_ok, post_ok say; what it does to the page, the counters
\* and the exception
AddNews(date, fetch_ok, get_ok, post_ok, r) ==
    IF r.raised
    THEN [raised |-> TRUE, page |-> pb_page, posted |-> FALSE, errors |-> 0,
          last |-> [NoRequests EXCEPT !.fetch = Outcome(fetch_ok)]]
    ELSE IF news_exists_for_date(date, r.dates)
    THEN [raised |-> FALSE, page |-> pb_page, posted |-> FALSE, errors |-> 0,
          last |-> [NoRequests EXCEPT !.fetch = Outcome(fetch_ok)]]
    ELSE IF ~get_ok
    THEN [raised |-> FALSE, page |-> pb_page, posted |-> FALSE,
          errors |-> 1 + (IF fetch_ok THEN 0 ELSE 1),
          last |-> [fetch |-> Outcome(fetch_ok), get |-> "fail", post |-> "skipped"]]
    ELSE IF ~post_ok
    THEN [raised |-> FALSE, page |-> pb_page, posted |-> FALSE,
          errors |-> 1 + (IF fetch_ok THEN 0 ELSE 1),
          last |-> [fetch |-> Outcome(fetch_ok), get |-> "ok", post |-> "fail"]]
    ELSE [raised |-> FALSE, page |-> UpdatedContent(pb_page, FormattedDate(date)),
          posted |-> TRUE, errors |-> IF fetch_ok THEN 0 ELSE 1,
          last |-> [fetch |-> Outcome(fetch_ok), get |-> "ok", post |-> "ok"]]

\* one turn of the for loop of main: a record whose date is not in
\* existing_dates goes to add_news_to_page
PbItem ==
    /\ pb_pc = "loop"
    /\ pb_idx <= Len(pb_news)
    /\ IF news_exists_for_date(pb_news[pb_idx].date, pb_existing)
       THEN /\ pb_idx' = pb_idx + 1
            /\ pb_last' = NoRequests
            /\ UNCHANGED <<pb_pc, pb_page, pb_posts, pb_errors, pb_published, pb_raised>>
       ELSE \E fetch_ok, get_ok, post_ok \in BOOLEAN :
            \E a \in {AddNews(pb_news[pb_idx].date, fetch_ok, get_ok, post_ok,
                              get_existing_news_dates(pb_page, fetch_ok))} :
               /\ pb_last' = a.last
               /\ pb_page' = a.page
               /\ pb_errors' = pb_errors + a.errors
               /\ pb_posts' = IF a.posted THEN pb_posts + 1 ELSE pb_posts
               /\ pb_published' = IF a.posted
                                  THEN pb_published \cup {pb_news[pb_idx].date}
                                  ELSE pb_published
               /\ IF a.raised
                  THEN pb_pc' = "raised" /\ pb_raised' = "IndexError" /\ UNCHANGED pb_idx
                  ELSE pb_idx' = pb_idx + 1 /\ UNCHANGED <<pb_pc, pb_raised>>
    /\ UNCHANGED <<pb_news, pb_test_mode, pb_existing, pb_runs, pubFrame>>

\* the for loop is over: logging.info("Website update completed.")
PbFinish ==
    /\ pb_pc = "loop"
    /\ pb_idx > Len(pb_news)
    /\ pb_pc' = "done"
    /\ UNCHANGED <<pb_news, pb_test_mode, pb_existing, pb_idx, pb_page, pb_posts,
                   pb_errors, pb_published, pb_last, pb_runs, pb_raised, pubFrame>>

\* a later run of main on the same data file
PbRerun ==
    /\ pb_pc = "done"
    /\ pb_runs < MaxRuns
    /\ pb_runs' = pb_runs + 1
    /\ pb_pc' = "start"
    /\ pb_existing' = <<>>
    /\ pb_idx' = 0
    /\ pb_last' = NoRequests
    /\ UNCHANGED <<pb_news, pb_test_mode, pb_page, pb_posts, pb_errors, pb_published,
                   pb_raised, pubFrame>>

PubNext == PbStart \/ PbItem \/ PbFinish \/ PbRerun

SpecPublish == PubInit /\ [][PubNext]_vars

(***************************************************************************)
(* Two publish runs at once: each calls add_news_to_page for the same      *)
(* record.  A step is one request to the server, which serves the          *)
(* requests one at a time; nothing else orders the two calls.              *)
(***************************************************************************)
Runs == {1, 2}

RaceInit ==
    /\ rc_pc = [p \in Runs |-> "check"]
    /\ rc_news \in PubRecords
    /\ rc_existing = [p \in Runs |-> <<>>]
    /\ rc_content = [p \in Runs |-> <<>>]
    /\ rc_page \in Pages
    /\ rc_writes = <<>>
    /\ RaceRestIdle

\* existing_dates = get_existing_news_dates(), then the test of
\* news_exists_for_date
RcCheck(p) ==
    /\ rc_pc[p] = "check"
    /\ \E fetch_ok \in BOOLEAN :
       \E r \in {get_existing_news_dates(rc_page, fetch_ok)} :
          /\ rc_existing' = [rc_existing EXCEPT ![p] = r.dates]
          /\ rc_pc' = [rc_pc EXCEPT ![p] =
                          IF r.raised THEN "raised"
                          ELSE IF news_exists_for_date(rc_news.date, r.dates) THEN "exists"
                          ELSE "get"]
    /\ UNCHANGED <<rc_news, rc_content, rc_page, rc_writes, raceFrame>>

\* response = requests.get(...); page_content = the rendered content
RcGet(p) ==
    /\ rc_pc[p] = "get"
    /\ \E get_ok \in BOOLEAN :
          /\ rc_content' = IF get_ok THEN [rc_content EXCEPT ![p] = rc_page] ELSE rc_content
          /\ rc_pc' = [rc_pc EXCEPT ![p] = IF get_ok THEN "post" ELSE "failed"]
    /\ UNCHANGED <<rc_news, rc_existing, rc_page, rc_writes, raceFrame>>

\* requests.post(..., json={"content": updated_content})
RcPost(p) ==
    /\ rc_pc[p] = "post"
    /\ \E post_ok \in BOOLEAN :
          /\ rc_page' = IF post_ok
                        THEN UpdatedContent(rc_content[p], FormattedDate(rc_news.date))
                        ELSE rc_page
          /\ rc_writes' = IF post_ok THEN Append(rc_writes, p) ELSE rc_writes
          /\ rc_pc' = [rc_pc EXCEPT ![p] = IF post_ok THEN "added" ELSE "failed"]
    /\ UNCHANGED <<rc_news, rc_existing, rc_content, raceFrame>>

RaceNext == \E p \in Runs : RcCheck(p) \/ RcGet(p) \/ RcPost(p)

SpecRace == RaceInit /\ [][RaceNext]_vars

\* the entries the page holds for the date key fd
EntriesFor(page, fd) ==
    Cardinality({n \in 1..Len(ExistingDates(page).dates) :
                    ExistingDates(page).dates[n] = fd})

\* both calls fetched the existing dates, and both updated the page
BothAdded ==
    \A p \in Runs : rc_pc[p] = "added" /\ rc_existing[p] # <<>>

\* C21: nothing keeps two publish runs for the same new date apart: when both
\* have updated the page, both had passed the existence check before either
\* wrote, and the page holds two entries for the date (the later writer read
\* the page after the earlier write) or one (the later writer read it before,
\* and its write-back replaced the earlier insertion).
C21_RaceOutcome ==
    BothAdded =>
        /\ \A p \in Runs : ~news_exists_for_date(rc_news.date, rc_existing[p])
        /\ \A p \in Runs : EntriesFor(rc_content[p], FormattedDate(rc_news.date))
                             = IF rc_content[p] = rc_content[rc_writes[1]] THEN 0 ELSE 1
        /\ \/ /\ rc_content[rc_writes[2]] = rc_content[rc_writes[1]]
              /\ EntriesFor(rc_page, FormattedDate(rc_news.date)) = 1
           \/ /\ rc_content[rc_writes[2]] # rc_content[rc_writes[1]]
              /\ EntriesFor(rc_page, FormattedDate(rc_news.date)) = 2

\* C21: both calls found no entry for the date on a page they could fetch,
\* both updated the page, and the page holds two entries for the date
C21_Witness ==
    /\ BothAdded
    /\ EntriesFor(rc_page, FormattedDate(rc_news.date)) = 2

(***************************************************************************)
(* Properties of the publisher (SpecPublish).                              *)
(***************************************************************************)
\* C11: publishing is idempotent: a turn of the loop on a record that was
\* published successfully before, in this run or an earlier one, makes no
\* page update and leaves the page as it is (so the page keeps its one entry
\* for that record).
C11_PublishIdempotent ==
    [][(pb_pc = "loop" /\ pb_idx <= Len(pb_news)
          /\ pb_news[pb_idx].date \in pb_published)
       => (pb_posts' = pb_posts /\ pb_page' = pb_page)]_vars

\* the page has an entry for the day of the record, MM-DD-YYYY
HasEntryFor(dates, record) == news_exists_for_date(record.formatted_date, dates)

\* C12: news_exists_for_date(date, existing) is true exactly when the page
\* has an entry for the day of the record, and after a run without a failed
\* request every record's day has been published or was on the page.
C12_ExistsExactlyForDate ==
    ~ExistingDates(pb_page).raised =>
        /\ \A i \in 1..Len(pb_news) :
              news_exists_for_date(pb_news[i].date, ExistingDates(pb_page).dates)
                 <=> HasEntryFor(ExistingDates(pb_page).dates, pb_news[i])
        /\ (pb_pc = "done" /\ pb_errors = 0) =>
              \A i \in 1..Len(pb_news) :
                 \/ HasEntryFor(ExistingDates(pb_page).dates, pb_news[i])
                 \/ \E j \in 1..Len(pb_news) :
                       /\ pb_news[j].date \in pb_published
                       /\ pb_news[j].formatted_date = pb_news[i].formatted_date

\* a request of the step just taken failed
RequestFailed(last) == last.fetch = "fail" \/ last.get = "fail" \/ last.post = "fail"

\* C17: when a request fails while one record is published, the error is
\* logged, main does not end in an exception and the loop goes on to the
\* next record.
C17_FailureContinues ==
    [][(pb_pc = "loop" /\ pb_idx <= Len(pb_news) /\ RequestFailed(pb_last'))
       => (pb_pc' = "loop" /\ pb_idx' = pb_idx + 1 /\ pb_errors' > pb_errors)]_vars

\* C17: main fetched the existing dates, a request failed for the first of
\* two records, and the second was published
C17_Witness ==
    /\ pb_pc = "done"
    /\ pb_runs = 1
    /\ Len(pb_news) = 2
    /\ pb_existing # <<>>
    /\ pb_errors = 1
    /\ pb_published = {pb_news[2].date}
    /\ pb_news[1].date # pb_news[2].date

\* new is old with item inserted once, immediately before a '</ul>'
InsertedOnce(old, new, item) ==
    \E i \in 1..(Len(old) - Len(ListClose) + 1) :
        /\ SubSeq(old, i, i + Len(ListClose) - 1) = ListClose
        /\ new = SubSeq(old, 1, i - 1) \o item \o SubSeq(old, i, Len(old))

\* C24: when add_news_to_page finds no entry for the date and its requests
\* succeed, the page it writes back is the page it fetched with exactly one
\* new list item for the date, immediately before a closing list tag, whether
\* the fetched page holds no, one or several closing list tags.
C24_OneItemInserted ==
    [][(pb_pc = "loop" /\ pb_idx <= Len(pb_news)
          /\ pb_last'.fetch = "ok" /\ pb_last'.post = "ok")
       => InsertedOnce(pb_page, pb_page',
                       NewsItem(FormattedDate(pb_news[pb_idx].date)))]_vars

\* C28: a run of main with test_mode=True sends no page update, for a new
\* record or an existing one: the page is never modified.
C28_TestModeNoUpdate ==
    [][pb_test_mode => (pb_posts' = pb_posts /\ pb_page' = pb_page)]_vars

\* C19: no exception goes past the entry point of a stage: the __main__ of
\* data_clean catches Exception around the whole stage; that of
\* news_translator calls translator.run() and that of wordpress_updater
\* calls main() outside any try, so neither run nor main may end in an
\* exception.
C19_NoEscape ==
    /\ pb_pc # "raised"
    /\ tr_pc # "raised"

(***************************************************************************)
(* check_duplicates called twice: on a list of records, then on the list   *)
(* it returned.                                                            *)
(***************************************************************************)
\* the records of the first call: with an audio link "x" or "y", or with none
DedupRecords ==
    {Rec(l, GoodDate, StrF(<<"s">>)) :
        l \in {StrF(<<"x">>), StrF(<<"y">>), AbsentF, StrF(<<>>)}}

DedupInit ==
    /\ dd_pc = "start"
    /\ dd_items \in UNION {[1..k -> DedupRecords] : k \in 0..MaxRecords}
    /\ dd_unique = <<>>
    /\ dd_before = <<>>
    /\ dd_again = <<>>
    /\ dd_duplicate = <<>>
    /\ DedupRestIdle

\* unique = self.check_duplicates(data)
DdFirst ==
    /\ dd_pc = "start"
    /\ \E r \in {check_duplicates(dd_items, [k \in 1..Len(dd_items) |-> k])} :
          /\ dd_unique' = r.unique
          /\ dd_duplicate' = dd_duplicate \o r.duplicate
          /\ dd_before' = dd_duplicate \o r.duplicate
    /\ dd_pc' = "once"
    /\ UNCHANGED <<dd_items, dd_again, dedupFrame>>

\* again = self.check_duplicates(unique)
DdSecond ==
    /\ dd_pc = "once"
    /\ \E r \in {check_duplicates(dd_items, dd_unique)} :
          /\ dd_again' = r.unique
          /\ dd_duplicate' = dd_duplicate \o r.duplicate
    /\ dd_pc' = "twice"
    /\ UNCHANGED <<dd_items, dd_unique, dd_before, dedupFrame>>

DedupNext == DdFirst \/ DdSecond

SpecDedup == DedupInit /\ [][DedupNext]_vars

\* C20: check_duplicates called on the list it returned gives back the same
\* list and appends nothing to duplicate_data.
C20_DedupIdempotent ==
    dd_pc = "twice" => dd_again = dd_unique /\ dd_duplicate = dd_before

\* C20: the second call has run on a list of two records that the first call
\* got by removing a duplicate
C20_Witness ==
    /\ dd_pc = "twice"
    /\ Len(dd_unique) = 2
    /\ dd_before # <<>>

(***************************************************************************)
(* Properties of DataCleaner.run (SpecClean).                              *)
(***************************************************************************)
\* no two records of recs have the same audio_link
DistinctLinks(recs) ==
    \A i, j \in 1..Len(recs) : i # j => recs[i].audio_link # recs[j].audio_link

\* C1: whatever the raw records are, no two records of the cleaned output,
\* in cleaned_data or in the cleaned output file, have the same audio_link.
C1_UniqueLinks ==
    /\ DistinctLinks(Deref(cl_items, cl_cleaned))
    /\ DistinctLinks(cl_output.data)

\* C1: run has ended on an input that repeats an audio_link, and the cleaned
\* output file holds two records
C1_Witness ==
    /\ cl_pc \in {"done", "raised"}
    /\ cl_duplicate # <<>>
    /\ cl_output.exists
    /\ Len(cl_output.data) = 2
    /\ Len(cl_cleaned) = 2

\* the record passes check_completeness and validate_data
ValidRecord(item) == Complete(item) /\ ParsesAsDate(item.formatted_date.v)

\* C2: once run has returned, every record of cleaned_data and of the cleaned
\* output file has date, formatted_date, summary, content and audio_link
\* non-empty and a formatted_date that parses as YYYYMMDD.
C2_CleanedOutputValid ==
    cl_pc = "done" =>
        /\ \A k \in 1..Len(cl_cleaned) : ValidRecord(cl_items[cl_cleaned[k]])
        /\ \A k \in 1..Len(cl_output.data) : ValidRecord(cl_output.data[k])

\* how many times the k-th input record is in a list of references
Occurs(data, k) == Cardinality({n \in 1..Len(data) : data[n] = k})

FirstWithLink(k) ==
    /\ TruthyF(cl_input[k].audio_link)
    /\ \A j \in 1..(k - 1) : cl_input[j].audio_link # cl_input[k].audio_link

\* the k-th input record has the audio_link of an earlier record
LaterWithLink(k) ==
    /\ TruthyF(cl_input[k].audio_link)
    /\ \E j \in 1..(k - 1) : cl_input[j].audio_link = cl_input[k].audio_link

\* C4: check_duplicates keeps, in input order, the first record of each
\* audio_link, puts every later record of that audio_link in duplicate_data,
\* in input order, and puts a record with a missing or empty audio_link in
\* neither.
C4_FirstKept ==
    cl_pc = "clean_text" =>
        /\ cl_unique = SelectSeq(cl_raw, FirstWithLink)
        /\ cl_duplicate = SelectSeq(cl_raw, LaterWithLink)
        /\ \A k \in 1..Len(cl_input) :
              ~TruthyF(cl_input[k].audio_link) =>
                  Occurs(cl_unique, k) = 0 /\ Occurs(cl_duplicate, k) = 0

\* C4: check_duplicates has run on records with the keys x, x, y: the first
\* and the third are kept, the second is the duplicate
C4_Witness ==
    /\ cl_pc = "clean_text"
    /\ Len(cl_input) = 3
    /\ cl_input[1].audio_link = StrF(<<"x">>)
    /\ cl_input[2].audio_link = StrF(<<"x">>)
    /\ cl_input[3].audio_link = StrF(<<"y">>)
    /\ cl_unique = <<1, 3>>
    /\ cl_duplicate = <<2>>

\* the required fields the record lacks, in the order of the list
MissingRequired(item) == SelectSeq(RequiredFields, LAMBDA f : ~TruthyF(item[f]))

\* C13: a record with a required field absent, null or empty does not stop
\* the run: clean_text does not raise on it, and with such a record in
\* incomplete_data (and no duplicate in the input) the save_data calls do not
\* raise, so the run goes on to validation, annotation and the final write.
C13_IncompleteContinues ==
    /\ cl_raised_in # "clean_text"
    /\ (cl_incomplete # <<>> /\ cl_duplicate = <<>>) => cl_raised_in # "save_data"

\* C14: every record in incomplete_data carries, as missing_fields, the list
\* of exactly the required fields it lacks.
C14_MissingFieldsRecorded ==
    \A k \in 1..Len(cl_incomplete) :
        cl_items[cl_incomplete[k]].missing_fields
            = ListF(MissingRequired(cl_items[cl_incomplete[k]]))

\* the k-th input record is unique and complete and has a formatted_date
\* that does not parse
DroppedByValidation(k) ==
    /\ Occurs(cl_unique, k) = 1
    /\ Complete(cl_items[k])
    /\ ~ParsesAsDate(cl_items[k].formatted_date.v)

\* C15: a unique, complete record whose formatted_date does not parse is in
\* cleaned_data after the completeness pass and, once run has returned, is in
\* neither cleaned_data nor the cleaned output file, nor in incomplete_data
\* or duplicate_data.
C15_InvalidDateDropped ==
    \A k \in 1..Len(cl_items) :
        DroppedByValidation(k) =>
            /\ cl_pc = "save" => Occurs(cl_cleaned, k) = 1
            /\ cl_pc = "done" =>
                  /\ Occurs(cl_cleaned, k) = 0
                  /\ \A n \in 1..Len(cl_output.data) :
                        cl_output.data[n].audio_link # cl_items[k].audio_link
                  /\ Occurs(cl_incomplete, k) = 0
                  /\ Occurs(cl_duplicate, k) = 0

\* check_duplicates has returned, and check_completeness has returned
DedupRan == cl_pc \notin {"start", "dedup"}
CompletenessRan ==
    \/ cl_pc \in {"save", "validate", "missing", "wordcloud", "final", "done"}
    \/ cl_pc = "raised" /\ cl_raised_in # "clean_text"

\* C22: the dedup pass runs before the completeness pass, which judges each
\* audio_link once: a later record with the audio_link of an earlier one is
\* in duplicate_data only, complete or not, and when the first record of an
\* audio_link is incomplete it is in incomplete_data and no record with that
\* audio_link is in cleaned_data or the cleaned output file.
C22_DedupThenCompleteness ==
    /\ ~CompletenessRan => cl_cleaned = <<>> /\ cl_incomplete = <<>>
    /\ \A k \in 1..Len(cl_input) :
          /\ LaterWithLink(k) =>
                /\ Occurs(cl_incomplete, k) = 0
                /\ Occurs(cl_cleaned, k) = 0
                /\ DedupRan => Occurs(cl_duplicate, k) = 1
          /\ (CompletenessRan /\ FirstWithLink(k) /\ ~Complete(cl_items[k])) =>
                /\ Occurs(cl_incomplete, k) = 1
                /\ \A n \in 1..Len(cl_cleaned) :
                      cl_items[cl_cleaned[n]].audio_link # cl_input[k].audio_link
                /\ \A n \in 1..Len(cl_output.data) :
                      cl_output.data[n].audio_link # cl_input[k].audio_link

\* C22: both passes have run on an input whose first record is incomplete and
\* whose second, complete, has the same audio_link; a third record is kept
C22_Witness ==
    /\ cl_pc = "save"
    /\ Len(cl_input) >= 3
    /\ ~Complete(cl_items[1])
    /\ Complete(cl_items[2])
    /\ cl_input[2].audio_link = cl_input[1].audio_link
    /\ cl_incomplete = <<1>>
    /\ cl_duplicate = <<2>>
    /\ cl_cleaned = <<3>>

\* C25: once run has returned, the cleaned output file, incomplete_data.json
\* and duplicate_data.json hold the records of cleaned_data, incomplete_data
\* and duplicate_data as they are at the end of the run (no record when the
\* collection is empty), and nothing written earlier in the run.
C25_FilesHoldFinalCollections ==
    cl_pc = "done" =>
        /\ cl_output.data = Deref(cl_items, cl_cleaned)
        /\ cl_incfile.data = Deref(cl_items, cl_incomplete)
        /\ cl_dupfile.data = Deref(cl_items, cl_duplicate)

\* C26: handle_missing_data annotates nothing: in every state of a run no
\* record of cleaned_data and no record of the cleaned output file has a
\* missing_fields attribute, with the MP3 file on disk or without it.
C26_NeverAnnotates ==
    /\ \A n \in 1..Len(cl_cleaned) : cl_items[cl_cleaned[n]].missing_fields = AbsentF
    /\ \A n \in 1..Len(cl_output.data) : cl_output.data[n].missing_fields = AbsentF

\* C26: run has returned, handle_missing_data has looked at two records, and
\* the cleaned output file holds them
C26_Witness ==
    /\ cl_pc = "done"
    /\ Len(cl_cleaned) = 2
    /\ cl_output = FileOf(Deref(cl_items, cl_cleaned))

(***************************************************************************)
(* Properties of the label round trip (SpecNames).                         *)
(***************************************************************************)
\* C7: restore_names(protect_names(text)) gives back text exactly, for every
\* text, when the protected text is passed through unchanged.
C7_RoundTrip == nm_pc = "restored" => nm_restored = nm_text

RECURSIVE SequentialText(_, _)
\* s with the label of its first match, at i, replaced by the placeholder of
\* index k, and the labels of the later matches by those of the next indexes
SequentialAt(s, k, i) ==
    IF i = 0 THEN s
    ELSE SubSeq(s, 1, i - 1) \o MatchAt(SubSeq(s, i, Len(s))).nl
         \o Placeholder(k) \o <<":">>
         \o SequentialText(SubSeq(s, i + MatchAt(SubSeq(s, i, Len(s))).len, Len(s)),
                           k + 1)

\* the text in which the k-th label match, in text order, has the placeholder
\* of index k, with its leading newline and its colon kept
SequentialText(s, k) == SequentialAt(s, k, FirstMatch(s))

\* the placeholder tokens in s
TokenCount(s) == Cardinality({j \in 1..Len(s) : TokenLen(SubSeq(s, j, Len(s))) > 0})

\* C23: protect_names returns the labels of the matches in text order and the
\* text in which the k-th match has its own placeholder, of index k, with the
\* leading newline and the colon kept; the protected text holds as many
\* placeholder tokens as there are labels, repeated labels included.
C23_SequentialPlaceholders ==
    nm_pc \in {"protected", "restored"} =>
        /\ nm_names = [k \in 1..Len(FindAll(nm_text)) |-> FindAll(nm_text)[k].name]
        /\ nm_protected = SequentialText(nm_text, 0)
        /\ TokenCount(nm_protected) = Len(nm_names)

(***************************************************************************)
(* Properties of translate_text and run (SpecTranslate).                   *)
(***************************************************************************)
\* the calls of the last translate_text call that returned nothing usable
AllCallsFailed ==
    /\ tr_calls # <<>>
    /\ \A k \in 1..Len(tr_calls) : ~tr_calls[k].raised /\ ~Truthy(tr_calls[k].ret)

\* C5: translate_text never raises, whatever the providers do, and returns its
\* input unchanged when every provider fails.
C5_NeverRaises ==
    /\ tr_raised_in # "translate_text"
    /\ (tr_ncalls > 0 /\ tr_pc # "raised" /\ AllCallsFailed) => tr_result = tr_given

\* the registered providers other than the preferred one, in registration order
OtherApis == SelectSeq(RegisteredApis, LAMBDA a : a # tr_preferred)

C8_ProvidersGetProtectedText ==
    tr_ncalls > 0 =>
        /\ \A k \in 1..Len(tr_calls) : tr_calls[k].text = protect_names(tr_given).text
        /\ tr_pc # "raised" =>
              \A n \in 1..Len(protect_names(tr_given).names) :
                  CountOcc(tr_result, protect_names(tr_given).names[n] \o <<":">>) > 0

\* C9: with DEEPL preferred, usage is queried exactly once before any record
\* is translated, and used >= limit ends the run with nothing translated and
\* no output written; with another provider preferred, usage is never queried
\* and never ends the run.
C9_QuotaGate ==
    /\ tr_preferred = "DEEPL" =>
          /\ tr_queries <= 1
          /\ (tr_pc # "start" /\ tr_raised_in # "load") => tr_queries = 1
          /\ (tr_ncalls > 0 \/ tr_output.exists) =>
                tr_usage.kind = "ok" /\ tr_usage.used < tr_usage.limit
          /\ (tr_pc # "start" /\ tr_input.exists /\ tr_usage.kind = "ok"
              /\ tr_usage.used >= tr_usage.limit) =>
                /\ tr_pc = "aborted"
                /\ tr_ncalls = 0
                /\ tr_data = tr_input.data
                /\ ~tr_output.exists
    /\ tr_preferred # "DEEPL" => tr_queries = 0 /\ tr_pc # "aborted"

\* C9 witness: DEEPL is preferred, usage has reached the limit, and the run
\* has returned at the gate with records waiting.
C9_Witness ==
    /\ tr_preferred = "DEEPL"
    /\ tr_usage.kind = "ok"
    /\ tr_usage.used = tr_usage.limit
    /\ tr_pc = "aborted"
    /\ Len(tr_data) > 0

\* the translate_text calls of a run over n records
CallsFor(n) == IF TranslatesContent(tr_test_mode) THEN 2 * n ELSE n

\* C27: the translated data file is written only once the quota gate, where
\* it applies, has passed and every record of the input has been processed,
\* and then holds the whole batch; a run that returns at the gate (limit
\* reached, no usage answer) or ends in an exception leaves the file as it
\* was, so the file never holds a partly translated batch.
C27_OutputAllOrNothing ==
    /\ tr_pc # "done" => tr_output = NoFile
    /\ tr_pc = "done" =>
          /\ tr_output = FileOf(tr_data)
          /\ UsageChecked(tr_preferred) =>
                tr_usage.kind = "ok" /\ tr_usage.used < tr_usage.limit
          /\ tr_idx = Len(tr_input.data)
          /\ tr_ncalls = CallsFor(Len(tr_input.data))
          /\ Len(tr_output.data) = Len(tr_input.data)

\* C27: a run with DeepL preferred has passed the gate, translated summary
\* and content of two records and written the file
C27_Witness ==
    /\ tr_pc = "done"
    /\ tr_preferred = "DEEPL"
    /\ ~tr_test_mode
    /\ Len(tr_input.data) = 2
    /\ tr_ncalls = 4
    /\ tr_output.exists

\* the texts of the records of the cleaned data file
TransTexts == {r.summary : r \in TransRecords} \cup {r.content : r \in TransRecords}

\* what translate_text can return for a text, by preferred provider
Translations ==
    [p \in {"DEEPL", "MICROSOFT"}, t \in TransTexts |->
        {r.result : r \in {x \in {translate_text(t, p, d, a) :
                                      d \in DeepLOutcomes, a \in AzureOutcomes} :
                           ~x.raised}}]

\* C10: in test mode run replaces only the summary of a record and leaves its
\* content and other fields as in the input; outside test mode summary and
\* content are both replaced by translate_text of their value.
C10_TestMode ==
    (tr_pc \in {"summary", "content", "write", "done"}) =>
        /\ Len(tr_data) = Len(tr_input.data)
        /\ \A i \in 1..Len(tr_data) : tr_data[i].date = tr_input.data[i].date
        /\ tr_test_mode =>
              \A i \in 1..Len(tr_data) : tr_data[i].content = tr_input.data[i].content
        /\ (tr_pc \in {"write", "done"}) =>
              \A i \in 1..Len(tr_data) :
                  /\ tr_data[i].summary \in Translations[tr_preferred, tr_input.data[i].summary]
                  /\ ~tr_test_mode =>
                        tr_data[i].content \in Translations[tr_preferred, tr_input.data[i].content]
        /\ tr_pc = "done" => tr_output = FileOf(tr_data)

\* C10 witness: a run in test mode has ended with a record whose summary was
\* translated by a provider.
C10_Witness ==
    /\ tr_pc = "done"
    /\ tr_test_mode
    /\ Len(tr_data) > 0
    /\ tr_data[1].summary # tr_input.data[1].summary
    /\ tr_data[1].content = tr_input.data[1].content

====
